---- MODULE Spec2Model ----
(***************************************************************************)
(* Addon package installation pipeline of ayon_server/installer/addons.py: *)
(* manifest parsers, the platform-version compatibility check, the         *)
(* synchronous unpacker (unpack_addon_sync) and the two asynchronous entry *)
(* points unpack_addon and install_addon_from_url.                         *)
(*                                                                         *)
(* Representation.                                                         *)
(*  - A semantic version string "a.b.c" is the triple <<a, b, c>>; an      *)
(*    absent max_ayon_version (None) is the empty tuple <<>>.              *)
(*  - A manifest is the record of the keys the parsers look at; a key that *)
(*    is missing is Absent, a key present with an empty value is "".       *)
(*  - A file on disk is [path, from, mode]: path is the tuple of its path  *)
(*    components relative to the directory that holds it, from is the      *)
(*    archive whose bytes it carries, mode its permission bits.            *)
(*  - installed is the tree under addons_dir: its DOMAIN is the set of     *)
(*    <<name, version>> directories that exist, installed[t] their files.  *)
(*    A directory below a target exists exactly when a file lies under it. *)
(***************************************************************************)
EXTENDS Integers, Sequences, FiniteSets, TLC

VARIABLES
    ayon_version,   \* ayon_server.version.__version__, as a triple
    rootExists,     \* whether ayonconfig.addons_dir exists on disk
    installed,      \* installed[<<name, version>>] = files of that directory
    job,            \* job[j]: locals and position of one coroutine
    events,         \* events[j]: the update_event calls made for event_id j
    before,         \* before[j]: installed as it was when job j started
    now,            \* time.time(), in whole seconds
    gate,           \* one evaluation of the version check (SpecGate)
    parsing         \* one evaluation of the manifest parser (SpecParse)

vars ==
    <<ayon_version, rootExists, installed, job, events, before, now, gate,
      parsing>>

\* Largest version component the version check is evaluated on.
MaxComponent == 10
\* Largest number of body chunks one response streams.
MaxChunks == 2
\* Last second the clock reaches.
MaxTime == 4

Absent == "<absent>"
NoVersion == <<>>

(***************************************************************************)
(* semver.compare                                                          *)
(***************************************************************************)
RECURSIVE SeqCompare(_, _)
\* Python's tuple / str ordering: first differing element decides, a proper
\* prefix is smaller.
SeqCompare(s, t) ==
    IF s = <<>> /\ t = <<>> THEN 0
    ELSE IF s = <<>> THEN -1
    ELSE IF t = <<>> THEN 1
    ELSE IF Head(s) < Head(t) THEN -1
    ELSE IF Head(s) > Head(t) THEN 1
    ELSE SeqCompare(Tail(s), Tail(t))

RECURSIVE Digits(_)
\* decimal digits of n, most significant first
Digits(n) == IF n < 10 THEN <<n>> ELSE Digits(n \div 10) \o <<n % 10>>

\* The characters of "a.b.c"; '.' sorts below every digit.
VersionString(v) ==
    Digits(v[1]) \o <<-1>> \o Digits(v[2]) \o <<-1>> \o Digits(v[3])

\* Mutant of SemverCompare: the two versions compared as strings.
StringCompare(a, b) == SeqCompare(VersionString(a), VersionString(b))

\* semver.compare(a, b): -1, 0 or 1 by (major, minor, patch).
SemverCompare(a, b) == SeqCompare(a, b)

(***************************************************************************)
(* Manifest parsers                                                        *)
(***************************************************************************)
Truthy(x) == x # Absent /\ x # ""

NoInfo ==
    [name |-> Absent, version |-> Absent, min_ayon_version |-> NoVersion,
     max_ayon_version |-> NoVersion, is_rez |-> FALSE]

Parsed(info) == [exc |-> "none", info |-> info]
Failed(exc) == [exc |-> exc, info |-> NoInfo]

\* AddonZipInfo(...): pydantic rejects None for the required str fields.
AddonZipInfo(name, version, min, max, rez) ==
    IF name = Absent \/ version = Absent
    THEN Failed("ValidationError")
    ELSE Parsed([name |-> name, version |-> version, min_ayon_version |-> min,
                 max_ayon_version |-> max, is_rez |-> rez])

\* Mutant of get_addon_info_from_manifest: no upper bound is set.
ManifestWithoutMax(m) ==
    IF ~(Truthy(m.addon_name) /\ Truthy(m.addon_version))
    THEN Failed("UnsupportedAddonException")
    ELSE AddonZipInfo(m.name, m.version, <<1, 0, 0>>, NoVersion, FALSE)

get_addon_info_from_manifest(m) ==
    IF ~(Truthy(m.addon_name) /\ Truthy(m.addon_version))
    THEN Failed("UnsupportedAddonException")
    ELSE AddonZipInfo(m.name, m.version, <<1, 0, 0>>, <<1, 2, 0>>, FALSE)

\* m.name / m.version: group(1) of the first regex match, Absent without one.
get_addon_info_from_package_py(m) ==
    IF ~(Truthy(m.name) /\ Truthy(m.version))
    THEN Failed("UnsupportedAddonException")
    ELSE AddonZipInfo(m.name, m.version, <<1, 0, 3>>, NoVersion, TRUE)

get_addon_info_from_package_yaml(m) ==
    IF ~(Truthy(m.name) /\ Truthy(m.version))
    THEN Failed("UnsupportedAddonException")
    ELSE AddonZipInfo(m.name, m.version, <<1, 0, 3>>, NoVersion, TRUE)

PARSERS == <<"manifest.json", "package.yaml", "package.yml", "package.py">>

Parser(manifest_name, m) ==
    CASE manifest_name = "manifest.json" -> get_addon_info_from_manifest(m)
      [] manifest_name = "package.py" -> get_addon_info_from_package_py(m)
      [] OTHER -> get_addon_info_from_package_yaml(m)

(***************************************************************************)
(* Archives                                                                *)
(***************************************************************************)
Member(path, mode, bad) == [path |-> path, mode |-> mode, bad |-> bad]

Json(an, av, n, v) ==
    [addon_name |-> an, addon_version |-> av, name |-> n, version |-> v]
Pkg(n, v) == [name |-> n, version |-> v]

\* zip: the bytes are a readable zip file; entries: infolist() in order;
\* manifests: the text of each manifest entry, parsed into its keys.
Archive(zip, entries, manifests) ==
    [zip |-> zip, entries |-> entries, manifests |-> manifests]

FullJson == Json("tvpaint", "1.0.0", "tvpaint", "1.0.0")

ArchiveIds ==
    {"plain", "std", "std2", "noaddon", "legacy", "flat", "flat2", "junk",
     "badmember", "nomanifest", "other"}

Archives ==
    [a \in ArchiveIds |->
        CASE a = "plain" ->
               Archive(TRUE,
                       <<Member(<<"manifest.json">>, "644", FALSE),
                         Member(<<"addon", "a.py">>, "755", FALSE)>>,
                       [x \in {"manifest.json"} |->
                           Json(Absent, Absent, "tvpaint", "1.0.0")])
          [] a = "std" ->
               Archive(TRUE,
                       <<Member(<<"manifest.json">>, "644", FALSE),
                         Member(<<"addon", "a.py">>, "755", FALSE),
                         Member(<<"addon", "lib", "b.py">>, "", FALSE)>>,
                       [x \in {"manifest.json"} |-> FullJson])
          [] a = "std2" ->
               Archive(TRUE,
                       <<Member(<<"manifest.json">>, "644", FALSE),
                         Member(<<"addon", "c.py">>, "644", FALSE)>>,
                       [x \in {"manifest.json"} |-> FullJson])
          [] a = "noaddon" ->
               Archive(TRUE,
                       <<Member(<<"manifest.json">>, "644", FALSE),
                         Member(<<"c.py">>, "644", FALSE)>>,
                       [x \in {"manifest.json"} |-> FullJson])
          [] a = "legacy" ->
               Archive(TRUE,
                       <<Member(<<"manifest.json">>, "644", FALSE),
                         Member(<<"addon", "a.py">>, "755", FALSE)>>,
                       [x \in {"manifest.json"} |->
                           Json("tvpaint", "1.0.0", Absent, Absent)])
          [] a = "flat" ->
               Archive(TRUE,
                       <<Member(<<"package.py">>, "644", FALSE),
                         Member(<<"lib", "d.py">>, "755", FALSE)>>,
                       [x \in {"package.py"} |-> Pkg("tvpaint", "1.0.0")])
          [] a = "flat2" ->
               Archive(TRUE,
                       <<Member(<<"package.yaml">>, "", FALSE),
                         Member(<<"e.py">>, "644", FALSE),
                         Member(<<"lib", "d.py">>, "644", FALSE)>>,
                       [x \in {"package.yaml"} |-> Pkg("tvpaint", "1.0.0")])
          [] a = "other" ->
               Archive(TRUE,
                       <<Member(<<"manifest.json">>, "644", FALSE),
                         Member(<<"addon", "f.py">>, "644", FALSE)>>,
                       [x \in {"manifest.json"} |->
                           Json("tvpaint", "1.0.1", "tvpaint", "1.0.1")])
          [] a = "junk" ->
               Archive(FALSE, <<>>, [x \in {} |-> Pkg(Absent, Absent)])
          [] a = "badmember" ->
               Archive(TRUE,
                       <<Member(<<"manifest.json">>, "644", FALSE),
                         Member(<<"addon", "a.py">>, "755", FALSE),
                         Member(<<"addon", "z.py">>, "644", TRUE)>>,
                       [x \in {"manifest.json"} |-> FullJson])
          [] OTHER ->
               Archive(TRUE,
                       <<Member(<<"readme.txt">>, "644", FALSE),
                         Member(<<"addon", "a.py">>, "755", FALSE)>>,
                       [x \in {} |-> Pkg(Absent, Absent)])]

\* zip_ref.namelist()
Names(a) == DOMAIN Archives[a].manifests

(***************************************************************************)
(* get_addon_zip_info                                                      *)
(***************************************************************************)
RECURSIVE FirstPresent(_, _)
\* the for loop over PARSERS: index of the first candidate among names, from
\* index i on; 0 if none
FirstPresent(names, i) ==
    IF i > Len(PARSERS) THEN 0
    ELSE IF PARSERS[i] \in names THEN i
    ELSE FirstPresent(names, i + 1)

FirstParser(a, i) == FirstPresent(Names(a), i)

RECURSIVE ParseFallingThrough(_, _)
\* Mutant of ParseFrom: a candidate the parser rejects is skipped and the next
\* one present is tried.
ParseFallingThrough(ms, i) ==
    LET k == FirstPresent(DOMAIN ms, i) IN
    IF k = 0 THEN Failed("UnsupportedAddonException")
    ELSE LET r == Parser(PARSERS[k], ms[PARSERS[k]]) IN
         IF r.exc = "none" \/ FirstPresent(DOMAIN ms, k + 1) = 0 THEN r
         ELSE ParseFallingThrough(ms, k + 1)

\* lines 102-110: parse the first candidate present from index i on, and only
\* that one; ms maps the manifest entries of the archive to their content
ParseFrom(ms, i) ==
    LET k == FirstPresent(DOMAIN ms, i) IN
    IF k = 0 THEN Failed("UnsupportedAddonException")
    ELSE Parser(PARSERS[k], ms[PARSERS[k]])

\* lines 99-110: open the zip, parse the first candidate present
ReadZipInfo(a) ==
    IF ~Archives[a].zip THEN Failed("BadZipFile")
    ELSE ParseFrom(Archives[a].manifests, 1)

\* Mutant of VersionSupported: the upper bound is not looked at.
VersionSupportedNoMax(p, d) == SemverCompare(p, d.min_ayon_version) >= 0

\* lines 112-123: FALSE where the code raises UnsupportedAddonException
VersionSupported(p, d) ==
    IF SemverCompare(p, d.min_ayon_version) < 0 THEN FALSE
    ELSE IF d.max_ayon_version # NoVersion
            /\ SemverCompare(p, d.max_ayon_version) >= 0 THEN FALSE
    ELSE TRUE

\* Mutant of get_addon_zip_info: the version check is left out.
ZipInfoUnchecked(a, p) == ReadZipInfo(a)

get_addon_zip_info(a, p) ==
    LET r == ReadZipInfo(a) IN
    IF r.exc # "none" THEN r
    ELSE IF ~VersionSupported(p, r.info) THEN Failed("UnsupportedAddonException")
    ELSE r

(***************************************************************************)
(* State of the jobs and of the disk                                       *)
(***************************************************************************)
\* event ids of the install jobs
Jobs == {1, 2}

\* ayon_version values the jobs run under
PlatformVersions == {<<1, 1, 0>>, <<1, 3, 0>>}

File(path, from, mode) == [path |-> path, from |-> from, mode |-> mode]

EmptyTree == [t \in {} |-> {}]

\* a version installed before any job of the run
OldTarget == <<"tvpaint", "1.0.0">>
OldFiles == {File(<<"old.py">>, "old", "644"), File(<<"lib", "old.py">>, "old", "644")}

NewJob ==
    [entry |-> "none", pc |-> "idle", zip |-> "", zip_file |-> FALSE,
     status_code |-> 0, file_size |-> 0, i |-> 0, last_time |-> 0, chunks |-> 0,
     zip_info |-> NoInfo, tmpdir |-> FALSE, tmp |-> {}, todo |-> <<>>,
     err |-> "none", escaped |-> FALSE, order |-> 0,
     downloaded |-> FALSE, unpacks |-> 0,
     emit_at |-> 0, emit_end |-> 0, emit_prev |-> 0, logged |-> FALSE]

NoGate == [p |-> NoVersion, d |-> NoInfo, res |-> "none"]

NoParsing == [ms |-> [x \in {} |-> Pkg(Absent, Absent)], done |-> FALSE,
              res |-> Failed("none")]

\* one update_event call; "" and -1 stand for an argument not passed
Report(status, progress, description) ==
    [status |-> status, progress |-> progress, description |-> description]

Emit(j, r) == events' = [events EXCEPT ![j] = Append(@, r)]

Set(j, r) == job' = [job EXCEPT ![j] = r]

Active(k) == job[k].pc \notin {"idle", "ended"}

\* position of a relocation that completes now among those completed so far
NextOrder == Cardinality({k \in Jobs : job[k].order > 0}) + 1

\* os.path.join(addon_root_dir, zip_info.name, zip_info.version)
\* Mutant of target_dir: the version is left out of the path.
TargetDirOfName(j) == <<job[j].zip_info.name, "">>

target_dir(j) == <<job[j].zip_info.name, job[j].zip_info.version>>

\* leaving the NamedTemporaryFile block deletes the scratch file
CloseTemporaryFile(r) == [r EXCEPT !.zip_file = FALSE]

\* the locals of the download loop are not read after it
AfterLoop(r) ==
    [r EXCEPT !.file_size = 0, !.i = 0, !.last_time = 0, !.chunks = 0]

\* an exception leaving install_addon_from_url through the with block
Escape(r, exc) ==
    [AfterLoop(CloseTemporaryFile(r)) EXCEPT
        !.pc = "ended", !.err = exc, !.escaped = TRUE]

\* Mutant of Raise: the exception leaves the scratch directory behind.
RaiseLeavingScratch(r, exc) == [r EXCEPT !.pc = "exc", !.err = exc]

\* an exception leaving the TemporaryDirectory block of unpack_addon_sync:
\* the scratch directory is cleaned up, the exception reaches the awaiting caller
Raise(r, exc) ==
    [r EXCEPT !.pc = "exc", !.err = exc, !.tmpdir = FALSE, !.tmp = {},
              !.todo = <<>>]

\* unpack_addon_sync of job k has been handed over and has not returned
Unpacking(k) == job[k].pc \in {"sync", "extract", "rmtree", "move", "exit"}

\* Mutant of Offloaded: install_addon_from_url calls unpack_addon_sync itself.
OffloadedLocalOnly(k) == job[k].entry = "local"

\* lines 186-187 and 264-270: both entries pass unpack_addon_sync to
\* loop.run_in_executor and await the task
Offloaded(k) == job[k].entry \in {"local", "url"}

\* a coroutine keeps the event-loop thread while it runs a blocking call itself
HoldsLoop(k) == Unpacking(k) /\ ~Offloaded(k)

\* the steps of coroutine j run on the event-loop thread
LoopFree(j) == \A k \in Jobs \ {j} : ~HoldsLoop(k)

Init ==
    /\ ayon_version \in PlatformVersions
    /\ rootExists \in BOOLEAN
    /\ installed \in (IF rootExists
                      THEN {EmptyTree, [t \in {OldTarget} |-> OldFiles]}
                      ELSE {EmptyTree})
    /\ job = [j \in Jobs |-> NewJob]
    /\ events = [j \in Jobs |-> <<>>]
    /\ before = [j \in Jobs |-> EmptyTree]
    /\ now = 2
    /\ gate = NoGate
    /\ parsing = NoParsing

(***************************************************************************)
(* install_addon_from_url                                                  *)
(***************************************************************************)
\* lines 212-227: first report, then NamedTemporaryFile(dir=addons_dir)
UrlBegin(j) ==
    /\ LoopFree(j)
    /\ job[j].pc = "idle"
    /\ Emit(j, Report("in_progress", -1, <<"Downloading">>))
    /\ before' = [before EXCEPT ![j] = installed]
    /\ IF rootExists
       THEN Set(j, [job[j] EXCEPT !.entry = "url", !.pc = "connect",
                                  !.zip_file = TRUE])
       ELSE Set(j, Escape([job[j] EXCEPT !.entry = "url"], "FileNotFoundError"))
    /\ UNCHANGED <<ayon_version, rootExists, installed, now, gate,
                 parsing>>

\* lines 228-230: the response arrives; its status code is not looked at
UrlConnect(j, bodies, lengths) ==
    /\ LoopFree(j)
    /\ job[j].pc = "connect"
    /\ \E code \in {200, 404}, body \in bodies, len \in lengths :
          Set(j, [job[j] EXCEPT !.pc = "stream", !.status_code = code,
                                !.zip = body, !.file_size = len])
    /\ UNCHANGED <<ayon_version, rootExists, installed, events, before, now, gate,
                 parsing>>

\* Mutant of ShouldEmit: the announced size is not looked at.
ShouldEmitUnsized(r, t) == t - r.last_time > 1

\* Mutant of ShouldEmit: the time of the last update is not looked at.
ShouldEmitAlways(r, t) == r.file_size # 0

\* line 236: file_size and (time.time() - last_time > 1)
ShouldEmit(r, t) == r.file_size # 0 /\ t - r.last_time > 1

\* lines 232-243: one chunk written; progress at most once per second. The
\* update_event call begins at the time the condition was evaluated and takes
\* d; last_time is read from the clock after it (line 243). emit_at and
\* emit_end record when the last update began and ended, emit_prev when the
\* one before it ended.
UrlChunk(j, delays) ==
    /\ LoopFree(j)
    /\ job[j].pc = "stream"
    /\ job[j].chunks < MaxChunks
    /\ LET r == job[j]
           i == r.i + 1   \* a chunk is one unit of the body
           percent == (i * 100) \div (IF r.file_size = 0 THEN 1 ELSE r.file_size)
       IN IF ShouldEmit(r, now)
          THEN \E d \in delays :
                  /\ now + d <= MaxTime
                  /\ Emit(j, Report("", percent \div 2, <<>>))
                  /\ now' = now + d
                  /\ Set(j, [r EXCEPT !.i = i, !.chunks = @ + 1,
                                      !.last_time = now + d,
                                      !.emit_at = now, !.emit_end = now + d,
                                      !.emit_prev = r.emit_end])
          ELSE /\ Set(j, [r EXCEPT !.i = i, !.chunks = @ + 1])
               /\ UNCHANGED <<events, now>>
    /\ UNCHANGED <<ayon_version, rootExists, installed, before, gate, parsing>>

\* the body iterator is exhausted
UrlStreamEnd(j) ==
    /\ LoopFree(j)
    /\ job[j].pc = "stream"
    /\ job[j].chunks > 0
    /\ Set(j, [AfterLoop(job[j]) EXCEPT !.pc = "parse", !.downloaded = TRUE])
    /\ UNCHANGED <<ayon_version, rootExists, installed, events, before, now, gate,
                 parsing>>

\* httpx raises while connecting or while streaming the body
UrlTransferError(j) ==
    /\ LoopFree(j)
    /\ job[j].pc \in {"connect", "stream"}
    /\ Set(j, Escape(job[j], "TransferError"))
    /\ UNCHANGED <<ayon_version, rootExists, installed, events, before, now, gate,
                 parsing>>

\* lines 247-257
UrlGetZipInfo(j) ==
    /\ LoopFree(j)
    /\ job[j].pc = "parse"
    /\ LET r == get_addon_zip_info(job[j].zip, ayon_version) IN
       IF r.exc # "none"
       THEN /\ Set(j, Escape(job[j], r.exc))
            /\ UNCHANGED events
       ELSE /\ Set(j, [job[j] EXCEPT !.pc = "sync", !.zip_info = r.info])
            /\ Emit(j, Report("in_progress", 50,
                              <<"Installing", r.info.name, r.info.version>>))
    /\ UNCHANGED <<ayon_version, rootExists, installed, before, now, gate,
                 parsing>>

\* Mutant of UrlFinish: the finished report names the request only.
UrlFinishUnnamed(j) ==
    /\ LoopFree(j)
    /\ job[j].entry = "url"
    /\ job[j].pc = "returned"
    /\ Set(j, [CloseTemporaryFile(job[j]) EXCEPT !.pc = "ended"])
    /\ Emit(j, Report("finished", -1, <<"Installed", "url">>))
    /\ UNCHANGED <<ayon_version, rootExists, installed, before, now, gate,
                 parsing>>

\* lines 270-276: the executor call returned; leave the with block, report
\* Leaving the NamedTemporaryFile block unlinks the scratch file; when the
\* unlink fails (permissions, read-only file system) the error leaves the
\* block and the coroutine, and line 272 is not reached.
UrlFinish(j) ==
    /\ LoopFree(j)
    /\ job[j].entry = "url"
    /\ job[j].pc = "returned"
    /\ \E removed \in BOOLEAN :
          IF removed
          THEN /\ Set(j, [CloseTemporaryFile(job[j]) EXCEPT !.pc = "ended"])
               /\ Emit(j, Report("finished", -1,
                                 <<"Installed", job[j].zip_info.name,
                                   job[j].zip_info.version>>))
          ELSE /\ Set(j, [job[j] EXCEPT !.pc = "ended", !.err = "PermissionError",
                                        !.escaped = TRUE])
               /\ UNCHANGED events
    /\ UNCHANGED <<ayon_version, rootExists, installed, before, now, gate,
                 parsing>>

\* lines 263-270: an exception of unpack_addon_sync is not caught
UrlPropagate(j) ==
    /\ LoopFree(j)
    /\ job[j].entry = "url"
    /\ job[j].pc = "exc"
    /\ Set(j, Escape(job[j], job[j].err))
    /\ UNCHANGED <<ayon_version, rootExists, installed, events, before, now, gate,
                 parsing>>

(***************************************************************************)
(* unpack_addon_sync, run in a worker thread                               *)
(***************************************************************************)
\* lines 129-134: makedirs, TemporaryDirectory, ZipFile(zip_path)
SyncBegin(j) ==
    /\ job[j].pc = "sync"
    /\ rootExists' = TRUE
    /\ IF job[j].zip_file /\ Archives[job[j].zip].zip
       THEN Set(j, [job[j] EXCEPT !.pc = "extract", !.tmpdir = TRUE,
                                  !.todo = Archives[job[j].zip].entries,
                                  !.unpacks = @ + 1])
       ELSE Set(j, Raise([job[j] EXCEPT !.unpacks = @ + 1], "BadZipFile"))
    /\ UNCHANGED <<ayon_version, installed, events, before, now, gate,
                 parsing>>

\* Mutant of ExtractedMode: os.chmod is never called.
ExtractedModeDefault(m) == "umask"

\* lines 139-141: the mode a member is left with
ExtractedMode(m) == IF m.mode # "" THEN m.mode ELSE "umask"

\* lines 135-141: one turn of the loop over infolist()
ExtractMember(j) ==
    /\ job[j].pc = "extract"
    /\ job[j].todo # <<>>
    /\ LET m == Head(job[j].todo) IN
       IF m.bad
       THEN Set(j, Raise(job[j], "BadZipFile"))
       ELSE Set(j, [job[j] EXCEPT
                      !.tmp = @ \cup {File(m.path, job[j].zip, ExtractedMode(m))},
                      !.todo = Tail(@)])
    /\ UNCHANGED <<ayon_version, rootExists, installed, events, before, now, gate,
                 parsing>>

\* Mutant of CheckTarget: the target directory is looked at before the last
\* member has been extracted.
CheckTargetEarly(j) ==
    /\ job[j].pc = "extract"
    /\ Set(j, [job[j] EXCEPT
                 !.pc = IF target_dir(j) \in DOMAIN installed THEN "rmtree" ELSE "move"])
    /\ UNCHANGED <<ayon_version, rootExists, installed, events, before, now, gate,
                 parsing>>

\* Mutant of CheckTarget: an existing target directory is not noticed.
CheckTargetNever(j) ==
    /\ job[j].pc = "extract"
    /\ job[j].todo = <<>>
    /\ Set(j, [job[j] EXCEPT !.pc = "move"])
    /\ UNCHANGED <<ayon_version, rootExists, installed, events, before, now, gate,
                 parsing>>

\* line 143: os.path.isdir(target_dir)
CheckTarget(j) ==
    /\ job[j].pc = "extract"
    /\ job[j].todo = <<>>
    /\ Set(j, [job[j] EXCEPT
                 !.pc = IF target_dir(j) \in DOMAIN installed THEN "rmtree" ELSE "move"])
    /\ UNCHANGED <<ayon_version, rootExists, installed, events, before, now, gate,
                 parsing>>

\* the tree without directory t
Without(tree, t) == [x \in DOMAIN tree \ {t} |-> tree[x]]

\* Mutant of RemoveTarget: the existing directory is left in place.
RemoveTargetSkipped(j) ==
    /\ job[j].pc = "rmtree"
    /\ Set(j, [job[j] EXCEPT !.pc = "move"])
    /\ UNCHANGED <<ayon_version, rootExists, installed, events, before, now, gate,
                 parsing>>

\* line 145: shutil.rmtree(target_dir)
RemoveTarget(j) ==
    /\ job[j].pc = "rmtree"
    /\ IF target_dir(j) \in DOMAIN installed
       THEN /\ installed' = Without(installed, target_dir(j))
            /\ Set(j, [job[j] EXCEPT !.pc = "move"])
       ELSE /\ Set(j, Raise(job[j], "FileNotFoundError"))
            /\ UNCHANGED installed
    /\ UNCHANGED <<ayon_version, rootExists, events, before, now, gate,
                 parsing>>

\* the files below the directory "addon" of a set of files
UnderAddon(files) == {f \in files : Len(f.path) > 1 /\ f.path[1] = "addon"}

\* Mutant of Strip: the file keeps its path from the scratch root.
StripNothing(f) == f

\* a file seen from inside its first directory
Strip(f) == [f EXCEPT !.path = Tail(@)]

\* line 165: shutil.move(tmpdirname/addon, target_dir). A destination that is
\* a directory receives the source inside it, under the source's base name.
MoveAddon(j) ==
    /\ job[j].pc = "move"
    /\ ~job[j].zip_info.is_rez
    /\ LET t == target_dir(j)
           src == UnderAddon(job[j].tmp)
       IN IF src = {}
          THEN /\ Set(j, Raise(job[j], "FileNotFoundError"))
               /\ UNCHANGED installed
          ELSE IF t \in DOMAIN installed
          THEN IF UnderAddon(installed[t]) # {}
               THEN /\ Set(j, Raise(job[j], "shutil.Error"))
                    /\ UNCHANGED installed
               ELSE /\ installed' = [installed EXCEPT ![t] = @ \cup src]
                    /\ Set(j, [job[j] EXCEPT !.pc = "exit", !.tmp = @ \ src,
                                             !.order = NextOrder])
          ELSE /\ installed' =
                     [x \in DOMAIN installed \cup {t} |->
                         IF x = t THEN {Strip(f) : f \in src} ELSE installed[x]]
               /\ Set(j, [job[j] EXCEPT !.pc = "exit", !.tmp = @ \ src,
                                        !.order = NextOrder])
    /\ UNCHANGED <<ayon_version, rootExists, events, before, now, gate,
                 parsing>>

\* os.walk is top-down: the files of a directory come before those below it
NextWalked(files) == {f \in files : \A g \in files : Len(f.path) <= Len(g.path)}

\* lines 152-159: one file re-homed; os.makedirs creates the target directory,
\* a file already at the destination path is replaced
MoveFile(j) ==
    /\ job[j].pc = "move"
    /\ job[j].zip_info.is_rez
    /\ \E f \in NextWalked(job[j].tmp) :
          LET t == target_dir(j)
              old == IF t \in DOMAIN installed THEN installed[t] ELSE {}
          IN /\ installed' =
                   [x \in DOMAIN installed \cup {t} |->
                       IF x = t
                       THEN {g \in old : g.path # f.path} \cup {f}
                       ELSE installed[x]]
             /\ Set(j, [job[j] EXCEPT
                          !.tmp = @ \ {f},
                          !.order = IF job[j].tmp = {f} THEN NextOrder ELSE @])
    /\ UNCHANGED <<ayon_version, rootExists, events, before, now, gate,
                 parsing>>

\* lines 158-159: makedirs or move fails (disk full, permission denied)
MoveFileError(j) ==
    /\ job[j].pc = "move"
    /\ job[j].zip_info.is_rez
    /\ job[j].tmp # {}
    /\ Set(j, Raise(job[j], "OSError"))
    /\ UNCHANGED <<ayon_version, rootExists, installed, events, before, now, gate,
                 parsing>>

\* line 162: shutil.rmtree(tmpdirname) after the walk
RemoveTmp(j) ==
    /\ job[j].pc = "move"
    /\ job[j].zip_info.is_rez
    /\ job[j].tmp = {}
    /\ Set(j, [job[j] EXCEPT !.pc = "exit", !.tmpdir = FALSE])
    /\ UNCHANGED <<ayon_version, rootExists, installed, events, before, now, gate,
                 parsing>>

\* the TemporaryDirectory block is left normally: cleanup, which tolerates a
\* directory that is already gone
SyncReturn(j) ==
    /\ job[j].pc = "exit"
    /\ Set(j, [job[j] EXCEPT !.pc = "returned", !.tmpdir = FALSE, !.tmp = {}])
    /\ UNCHANGED <<ayon_version, rootExists, installed, events, before, now, gate,
                 parsing>>

(***************************************************************************)
(* unpack_addon: the caller passes a local archive and the AddonZipInfo    *)
(* it read from it with get_addon_zip_info                                 *)
(***************************************************************************)
\* lines 177-187
LocalBegin(j, archives) ==
    /\ LoopFree(j)
    /\ job[j].pc = "idle"
    /\ \E a \in archives :
          LET r == get_addon_zip_info(a, ayon_version) IN
          /\ r.exc = "none"
          /\ Set(j, [job[j] EXCEPT !.entry = "local", !.pc = "sync", !.zip = a,
                                   !.zip_file = TRUE, !.zip_info = r.info])
          /\ Emit(j, Report("in_progress", -1,
                            <<"Unpacking", r.info.name, r.info.version>>))
    /\ before' = [before EXCEPT ![j] = installed]
    /\ UNCHANGED <<ayon_version, rootExists, installed, now, gate,
                 parsing>>

\* Mutant of LocalCatch: the except block returns after its report.
LocalCatchReturning(j) ==
    /\ LoopFree(j)
    /\ job[j].entry = "local"
    /\ job[j].pc = "exc"
    /\ Emit(j, Report("failed", -1, <<"Error", job[j].err>>))
    /\ Set(j, [job[j] EXCEPT !.pc = "ended"])
    /\ UNCHANGED <<ayon_version, rootExists, installed, before, now, gate,
                 parsing>>

\* lines 189-195: the except block; control then falls through to line 197
LocalCatch(j) ==
    /\ LoopFree(j)
    /\ job[j].entry = "local"
    /\ job[j].pc = "exc"
    /\ Emit(j, Report("failed", -1, <<"Error", job[j].err>>))
    /\ Set(j, [job[j] EXCEPT !.pc = "returned"])
    /\ UNCHANGED <<ayon_version, rootExists, installed, before, now, gate,
                 parsing>>

\* lines 197-200: os.remove(zip_path); a failure is logged only
LocalRemoveZip(j) ==
    /\ LoopFree(j)
    /\ job[j].entry = "local"
    /\ job[j].pc = "returned"
    /\ \E removed \in BOOLEAN :
          Set(j, [job[j] EXCEPT !.pc = "finish",
                                !.zip_file = IF removed THEN FALSE ELSE @,
                                !.logged = ~removed])
    /\ UNCHANGED <<ayon_version, rootExists, installed, events, before, now, gate,
                 parsing>>

\* lines 202-206
LocalFinish(j) ==
    /\ LoopFree(j)
    /\ job[j].pc = "finish"
    /\ Emit(j, Report("finished", -1,
                      <<"Installed", job[j].zip_info.name, job[j].zip_info.version>>))
    /\ Set(j, [job[j] EXCEPT !.pc = "ended"])
    /\ UNCHANGED <<ayon_version, rootExists, installed, before, now, gate,
                 parsing>>

(***************************************************************************)
(* Specifications                                                          *)
(***************************************************************************)
\* the wall clock advances
Tick ==
    /\ now < MaxTime
    /\ now' = now + 1
    /\ UNCHANGED <<ayon_version, rootExists, installed, job, events, before, gate,
                 parsing>>

\* the steps of a job that has begun
Step(j) ==
    \/ UrlChunk(j, {0})
    \/ UrlStreamEnd(j)
    \/ UrlTransferError(j)
    \/ UrlGetZipInfo(j)
    \/ UrlFinish(j)
    \/ UrlPropagate(j)
    \/ SyncBegin(j)
    \/ ExtractMember(j)
    \/ CheckTarget(j)
    \/ RemoveTarget(j)
    \/ MoveAddon(j)
    \/ MoveFile(j)
    \/ MoveFileError(j)
    \/ RemoveTmp(j)
    \/ SyncReturn(j)
    \/ LocalCatch(j)
    \/ LocalRemoveZip(j)
    \/ LocalFinish(j)

\* job ids are handed out in order
InOrder(j) == \A k \in Jobs : k < j => job[k].pc # "idle"

\* no other job is running
Alone(j) == \A k \in Jobs \ {j} : ~Active(k)

\* archives installed by concurrent jobs
RacingArchives == {"std", "std2", "flat", "flat2", "noaddon", "other"}

\* Jobs run concurrently: the event loop interleaves the coroutines and the
\* worker threads run unpack_addon_sync in parallel.
Next ==
    \E j \in Jobs :
        \/ InOrder(j) /\ UrlBegin(j)
        \/ UrlConnect(j, RacingArchives, {0})
        \/ InOrder(j) /\ LocalBegin(j, RacingArchives)
        \/ Step(j)

Spec == Init /\ [][Next]_vars

\* Jobs run one after the other.
NextSeq ==
    \E j \in Jobs :
        \/ InOrder(j) /\ Alone(j) /\ UrlBegin(j)
        \/ UrlConnect(j, ArchiveIds, {0})
        \/ InOrder(j) /\ Alone(j) /\ LocalBegin(j, ArchiveIds)
        \/ Step(j)

SpecSeq == Init /\ [][NextSeq]_vars

\* One download observed against the clock.
NextFetch ==
    \/ Tick
    \/ UrlBegin(1)
    \/ UrlConnect(1, {"std"}, 0 .. MaxChunks + 1)
    \/ UrlChunk(1, {0, 1})
    \/ UrlStreamEnd(1)
    \/ UrlTransferError(1)
    \/ UrlGetZipInfo(1)

SpecFetch == Init /\ [][NextFetch]_vars

(***************************************************************************)
(* The version check of get_addon_zip_info on its own                      *)
(***************************************************************************)
Components == 0 .. MaxComponent
Versions == Components \X Components \X Components

\* the descriptors the manifest parsers produce for the archives
Descriptors ==
    {ReadZipInfo(a).info : a \in {x \in ArchiveIds : ReadZipInfo(x).exc = "none"}}

InitGate ==
    /\ ayon_version \in Versions
    /\ rootExists = TRUE
    /\ installed = EmptyTree
    /\ job = [j \in Jobs |-> NewJob]
    /\ events = [j \in Jobs |-> <<>>]
    /\ before = [j \in Jobs |-> EmptyTree]
    /\ now = 2
    /\ gate \in {[p |-> ayon_version, d |-> d, res |-> "none"] : d \in Descriptors}
    /\ parsing = NoParsing

\* lines 112-125 applied to the descriptor
GateCheck ==
    /\ gate.res = "none"
    /\ gate' = [gate EXCEPT !.res = IF VersionSupported(gate.p, gate.d)
                                    THEN "returned"
                                    ELSE "UnsupportedAddonException"]
    /\ UNCHANGED <<ayon_version, rootExists, installed, job, events, before, now,
                   parsing>>

NextGate == GateCheck

SpecGate == InitGate /\ [][NextGate]_vars

(***************************************************************************)
(* The manifest parser of get_addon_zip_info on its own                    *)
(***************************************************************************)
\* a candidate entry that is not in the archive
NoEntry == [missing |-> TRUE]

JsonTexts ==
    {Json(an, av, n, v) : an \in {Absent, "j"}, av \in {Absent, "1.0.0"},
                          n \in {Absent, "", "j"}, v \in {Absent, "", "1.0.0"}}
YamlTexts == {Pkg(n, v) : n \in {Absent, "", "y"}, v \in {Absent, "", "1.0.0"}}
YmlTexts == {Pkg("m", "1.0.0"), Pkg(Absent, "1.0.0")}
\* the regex groups are never empty
PyTexts == {Pkg("p", "1.0.0"), Pkg("p", Absent)}

\* the manifest entries of an archive, one choice per candidate name
ManifestsOf(j, y, m, p) ==
    LET all == [x \in {"manifest.json", "package.yaml", "package.yml", "package.py"} |->
                   CASE x = "manifest.json" -> j
                     [] x = "package.yaml" -> y
                     [] x = "package.yml" -> m
                     [] OTHER -> p]
    IN [x \in {n \in DOMAIN all : all[n] # NoEntry} |-> all[x]]

InitParse ==
    /\ ayon_version = <<1, 1, 0>>
    /\ rootExists = TRUE
    /\ installed = EmptyTree
    /\ job = [j \in Jobs |-> NewJob]
    /\ events = [j \in Jobs |-> <<>>]
    /\ before = [j \in Jobs |-> EmptyTree]
    /\ now = 2
    /\ gate = NoGate
    /\ \E j \in JsonTexts \cup {NoEntry}, y \in YamlTexts \cup {NoEntry},
          m \in YmlTexts \cup {NoEntry}, p \in PyTexts \cup {NoEntry} :
          parsing = [ms |-> ManifestsOf(j, y, m, p), done |-> FALSE,
                     res |-> Failed("none")]

\* lines 102-110 applied to the archive's manifest entries
ParseStep ==
    /\ ~parsing.done
    /\ parsing' = [parsing EXCEPT !.done = TRUE, !.res = ParseFrom(parsing.ms, 1)]
    /\ UNCHANGED <<ayon_version, rootExists, installed, job, events, before, now,
                   gate>>

NextParse == ParseStep

SpecParse == InitParse /\ [][NextParse]_vars

(***************************************************************************)
(* Properties                                                              *)
(***************************************************************************)
Ended(j) == job[j].pc = "ended"

\* job j has ended and no later job has begun: the disk is as j left it
JustEnded(j) == Ended(j) /\ \A k \in Jobs : k > j => job[k].pc = "idle"

HasInfo(j) == job[j].zip_info # NoInfo

Has(tree, t) == t \in DOMAIN tree

\* directory t is the same in both trees: absent in both, or the same files
SameDir(tree1, tree2, t) ==
    /\ Has(tree1, t) <=> Has(tree2, t)
    /\ Has(tree1, t) => tree1[t] = tree2[t]

EntrySet(a) == {Archives[a].entries[n] : n \in DOMAIN Archives[a].entries}

\* what an archive is to leave in its target directory: the contents of its
\* addon/ directory (standard), every file at its own path (flat)
Payload(a, is_rez) ==
    IF is_rez
    THEN {File(m.path, a, ExtractedMode(m)) : m \in EntrySet(a)}
    ELSE {File(Tail(m.path), a, ExtractedMode(m)) :
             m \in {e \in EntrySet(a) : Len(e.path) > 1 /\ e.path[1] = "addon"}}

JobPayload(j) == Payload(job[j].zip, job[j].zip_info.is_rez)

\* the target directory holds exactly the payload of job j
IsNew(j) ==
    /\ Has(installed, target_dir(j))
    /\ installed[target_dir(j)] = JobPayload(j)

HasStatus(r) == r.status # ""

\* the statuses reported for job j, in order
Statuses(j) == SelectSeq(events[j], HasStatus)

LastStatus(j) ==
    IF Statuses(j) = <<>> THEN "" ELSE Statuses(j)[Len(Statuses(j))].status

\* an order number usable only for comparing versions
VersionKey(v) ==
    (v[1] * (MaxComponent + 2) + v[2]) * (MaxComponent + 2) + v[3]

\* C1: the version check accepts exactly when min <= platform and (max absent
\* or platform < max), by numeric major/minor/patch; every rejection is an
\* UnsupportedAddonException.
C1_GateAcceptsExactlyInRange ==
    gate.res # "none" =>
        /\ gate.res \in {"returned", "UnsupportedAddonException"}
        /\ (gate.res = "returned") <=>
              /\ VersionKey(gate.d.min_ayon_version) <= VersionKey(gate.p)
              /\ \/ gate.d.max_ayon_version = NoVersion
                 \/ VersionKey(gate.p) < VersionKey(gate.d.max_ayon_version)

\* C1 witness: platform 1.10.0 is rejected against the upper bound 1.2.0.
C1_Witness ==
    /\ gate.res = "UnsupportedAddonException"
    /\ gate.p = <<1, 10, 0>>
    /\ gate.d.max_ayon_version = <<1, 2, 0>>

\* C2: on platform 1.1.0 an archive with manifest.json {"name", "version"} and
\* an addon/ directory, once fetched, ends finished with root/name/version
\* holding exactly the contents of addon/.
C2_PlainManifestInstalls ==
    \A j \in Jobs :
        ( /\ JustEnded(j)
          /\ ayon_version = <<1, 1, 0>>
          /\ job[j].zip = "plain"
          /\ job[j].err # "TransferError" ) =>
            /\ LastStatus(j) = "finished"
            /\ Has(installed, <<"tvpaint", "1.0.0">>)
            /\ installed[<<"tvpaint", "1.0.0">>] = Payload("plain", FALSE)

\* C3: once a job has reported failed, no later report of that job carries
\* another status.
C3_FailedIsTerminal ==
    \A j \in Jobs :
        \A a, b \in DOMAIN events[j] :
            (a < b /\ events[j][a].status = "failed") =>
                events[j][b].status \in {"failed", ""}

\* the error of job j is one raised within the phases of an install: fetching,
\* parsing, the version check, extraction or relocation (creating the scratch
\* file precedes them)
PhaseError(j) ==
    /\ job[j].err # "none"
    /\ ~(job[j].entry = "url" /\ job[j].status_code = 0
         /\ job[j].err = "FileNotFoundError")

\* C4: no error raised within a job's phases leaves install_addon_from_url or
\* unpack_addon as an exception.
C4_NoExceptionEscapes == \A j \in Jobs : PhaseError(j) => ~job[j].escaped

\* C5: a job that hit an error has, when it ends, reported failed with a
\* description, and failed is its last status.
C5_ErrorEndsFailed ==
    \A j \in Jobs :
        (Ended(j) /\ PhaseError(j)) =>
            /\ LastStatus(j) = "failed"
            /\ \E n \in DOMAIN events[j] :
                  events[j][n].status = "failed" /\ events[j][n].description # <<>>

\* both jobs installed the same (name, version) and both returned normally
BothInstalledSame ==
    /\ \A j \in Jobs : Ended(j) /\ HasInfo(j) /\ job[j].err = "none"
    /\ target_dir(1) = target_dir(2)

\* the job whose relocation completed last
LastRelocated == CHOOSE j \in Jobs : \A k \in Jobs : job[k].order <= job[j].order

\* C6: two jobs for the same (name, version), however interleaved, leave in
\* root/name/version exactly the payload of the job that relocated last.
C6_LastRelocationWins ==
    BothInstalledSame => IsNew(LastRelocated)

\* C7 as claimed: after a job has ended, root/name/version holds the complete
\* previous content or the complete new content.
C7_OldOrNew ==
    \A j \in Jobs :
        (JustEnded(j) /\ HasInfo(j)) =>
            \/ SameDir(installed, before[j], target_dir(j))
            \/ IsNew(j)

\* C7 amended: after a single job has ended, root/name/version holds the
\* complete new content if the job returned normally, the complete previous
\* content if the job failed before the existing directory is removed (fetch,
\* parse, version check, extraction), and otherwise (relocation failed after
\* the removal) is absent or holds only files of the new archive; it never
\* holds a previous file next to a new one.
C7_OldNewOrRemoved ==
    \A j \in Jobs :
        /\ (JustEnded(j) /\ ~HasInfo(j)) => installed = before[j]
        /\ (JustEnded(j) /\ HasInfo(j)) =>
            /\ job[j].err = "none" => IsNew(j)
            /\ job[j].err = "BadZipFile" =>
                  SameDir(installed, before[j], target_dir(j))
            /\ job[j].err \notin {"none", "BadZipFile"} =>
                  \/ ~Has(installed, target_dir(j))
                  \/ installed[target_dir(j)] \subseteq JobPayload(j)

\* C7 witness: a flat install has replaced a previously installed version.
C7_Witness ==
    \E j \in Jobs :
        /\ JustEnded(j) /\ HasInfo(j) /\ job[j].err = "none"
        /\ job[j].zip_info.is_rez
        /\ Has(before[j], target_dir(j))
        /\ before[j][target_dir(j)] # {}
        /\ IsNew(j)

\* C8: installing (name, version) and then, once that job has ended,
\* installing it again from another archive leaves root/name/version with
\* exactly the second archive's payload and no file of the first.
C8_ReinstallReplaces ==
    ( /\ BothInstalledSame
      /\ job[1].zip # job[2].zip ) =>
        /\ IsNew(2)
        /\ \A f \in installed[target_dir(2)] : f.from # job[1].zip

\* C8 witness: a standard install followed by a flat one of the same pair.
C8_Witness ==
    /\ BothInstalledSame
    /\ job[1].zip # job[2].zip
    /\ ~job[1].zip_info.is_rez
    /\ job[2].zip_info.is_rez
    /\ IsNew(2)

\* C9: a fetch answered 404 ends the job with a transfer error, and the
\* scratch file is gone afterwards.
C9_NotFoundIsTransferError ==
    \A j \in Jobs :
        (Ended(j) /\ job[j].status_code = 404) =>
            /\ job[j].err = "TransferError"
            /\ ~job[j].zip_file

\* C10: after a failed fetch (network error or non-success status) the
\* installed tree is what it was before the job.
C10_FailedFetchInstallsNothing ==
    \A j \in Jobs :
        ( /\ JustEnded(j)
          /\ job[j].entry = "url"
          /\ job[j].status_code = 404 \/ job[j].err = "TransferError" ) =>
            installed = before[j]

\* platform p lies in the range descriptor d declares, by VersionKey
InRange(p, d) ==
    /\ VersionKey(d.min_ayon_version) <= VersionKey(p)
    /\ \/ d.max_ayon_version = NoVersion
       \/ VersionKey(p) < VersionKey(d.max_ayon_version)

\* job j downloaded an archive whose manifest parses and whose version range
\* excludes the running platform
GateRejects(j) ==
    /\ job[j].entry = "url"
    /\ job[j].downloaded
    /\ ReadZipInfo(job[j].zip).exc = "none"
    /\ ~InRange(ayon_version, ReadZipInfo(job[j].zip).info)

\* C11: a job whose archive the version check rejects never calls
\* unpack_addon_sync, ends with UnsupportedAddonException once it has parsed,
\* and leaves the installed tree and the install root as they were.
C11_RejectionChangesNothing ==
    \A j \in Jobs :
        GateRejects(j) =>
            /\ job[j].unpacks = 0
            /\ job[j].pc \in {"parse", "ended"}
            /\ Ended(j) => job[j].err = "UnsupportedAddonException"
            /\ JustEnded(j) => installed = before[j]

\* C11 witness: platform 1.3.0 has rejected a JSON-manifest archive (max 1.2.0).
C11_Witness ==
    \E j \in Jobs :
        /\ GateRejects(j) /\ JustEnded(j)
        /\ ayon_version = <<1, 3, 0>>
        /\ job[j].zip = "std"
        /\ job[j].err = "UnsupportedAddonException"

\* the archive holds one of the manifest entries the parser looks for
HasManifest(a) ==
    Names(a) \cap {"manifest.json", "package.yaml", "package.yml", "package.py"} # {}

\* C12: in install_addon_from_url, unpack_addon_sync is entered only once the
\* download is complete and the archive's manifest has parsed and passed the
\* version check; an archive without a manifest entry ends the job with
\* UnsupportedAddonException and nothing extracted.
C12_ExtractionAfterGate ==
    \A j \in Jobs :
        job[j].entry = "url" =>
            /\ (job[j].unpacks > 0 \/ job[j].tmpdir \/ job[j].tmp # {}) =>
                  /\ job[j].downloaded
                  /\ HasManifest(job[j].zip)
                  /\ ReadZipInfo(job[j].zip).exc = "none"
                  /\ InRange(ayon_version, ReadZipInfo(job[j].zip).info)
            /\ ( /\ Ended(j) /\ job[j].downloaded
                 /\ Archives[job[j].zip].zip /\ ~HasManifest(job[j].zip) ) =>
                  /\ job[j].err = "UnsupportedAddonException"
                  /\ job[j].unpacks = 0

\* C12 witness: a downloaded archive is being extracted.
C12_Witness ==
    \E j \in Jobs :
        /\ job[j].entry = "url"
        /\ job[j].pc = "extract"
        /\ job[j].tmp # {}
        /\ job[j].downloaded

\* the manifest entry the fixed order selects among those present
SelectedName(ms) ==
    IF "manifest.json" \in DOMAIN ms THEN "manifest.json"
    ELSE IF "package.yaml" \in DOMAIN ms THEN "package.yaml"
    ELSE IF "package.yml" \in DOMAIN ms THEN "package.yml"
    ELSE IF "package.py" \in DOMAIN ms THEN "package.py"
    ELSE ""

\* C13: the result is that of the parser of the first candidate present, in
\* the order manifest.json, package.yaml, package.yml, package.py, applied to
\* that entry alone: with a JSON manifest present no package file is used,
\* also when the JSON manifest is rejected.
C13_FirstCandidateOnly ==
    parsing.done =>
        LET sel == SelectedName(parsing.ms) IN
        IF sel = "" THEN parsing.res.exc = "UnsupportedAddonException"
        ELSE parsing.res = Parser(sel, parsing.ms[sel])

\* C13 witness: JSON manifest and package.yaml both present and valid, the
\* descriptor is the JSON manifest's.
C13_Witness ==
    /\ parsing.done
    /\ {"manifest.json", "package.yaml"} \subseteq DOMAIN parsing.ms
    /\ Truthy(parsing.ms["package.yaml"].name)
    /\ Truthy(parsing.ms["package.yaml"].version)
    /\ parsing.res.exc = "none"
    /\ parsing.res.info.name = "j"

\* C14: the parser fails exactly when no candidate is present or the selected
\* manifest's name or version is absent or empty, and then with
\* UnsupportedAddonException; no other key decides and no other error occurs.
C14_NameAndVersionDecide ==
    parsing.done =>
        LET sel == SelectedName(parsing.ms)
            lacking == \/ sel = ""
                       \/ ~Truthy(parsing.ms[sel].name)
                       \/ ~Truthy(parsing.ms[sel].version)
        IN /\ parsing.res.exc \in {"none", "UnsupportedAddonException"}
           /\ lacking <=> parsing.res.exc = "UnsupportedAddonException"

\* C15: a descriptor from manifest.json is standard with bounds 1.0.0 and
\* 1.2.0; one from package.yaml, package.yml or package.py is flat with lower
\* bound 1.0.3 and no upper bound.
C15_FormatFixesKindAndBounds ==
    (parsing.done /\ parsing.res.exc = "none") =>
        LET d == parsing.res.info IN
        IF SelectedName(parsing.ms) = "manifest.json"
        THEN /\ ~d.is_rez
             /\ d.min_ayon_version = <<1, 0, 0>>
             /\ d.max_ayon_version = <<1, 2, 0>>
        ELSE /\ d.is_rez
             /\ d.min_ayon_version = <<1, 0, 3>>
             /\ d.max_ayon_version = NoVersion

\* C15 witness: a JSON manifest has been parsed into a descriptor.
C15_Witness ==
    /\ parsing.done
    /\ parsing.res.exc = "none"
    /\ SelectedName(parsing.ms) = "manifest.json"
    /\ ~parsing.res.info.is_rez

\* the (name, version) pair job j installs
Pair(j) == <<job[j].zip_info.name, job[j].zip_info.version>>

\* both jobs have ended, each having had a descriptor, for different pairs
BothEndedApart ==
    /\ \A j \in Jobs : Ended(j) /\ HasInfo(j)
    /\ Pair(1) # Pair(2)

\* C16: two jobs for different (name, version) pairs, however interleaved,
\* each end as they would alone: a job whose unpack_addon_sync returned
\* leaves in root/name/version exactly its own payload, and a job fails only
\* as it fails alone (an archive without addon/ has nothing to relocate, a
\* file move meets an I/O error, the scratch file cannot be unlinked), never
\* on a directory the other job made or removed.
C16_DifferentPairsApart ==
    BothEndedApart =>
        \A j \in Jobs :
            /\ job[j].err \in {"none", "PermissionError"} =>
                  /\ Has(installed, Pair(j))
                  /\ installed[Pair(j)] = JobPayload(j)
            /\ job[j].err # "none" =>
                  \/ job[j].zip = "noaddon" /\ job[j].err = "FileNotFoundError"
                  \/ job[j].zip_info.is_rez /\ job[j].err = "OSError"
                  \/ job[j].entry = "url" /\ job[j].err = "PermissionError"

\* C16 witness: both jobs installed, same name, different versions.
C16_Witness ==
    /\ BothEndedApart
    /\ \A j \in Jobs : job[j].err = "none" /\ job[j].unpacks > 0
    /\ job[1].zip_info.name = job[2].zip_info.name
    /\ \A j \in Jobs : Has(installed, Pair(j)) /\ installed[Pair(j)] = JobPayload(j)

\* C17: when a job has ended, by success or by a failure of the fetch, the
\* parser, the version check, the extraction or the relocation, its scratch
\* directory and everything in it are gone, and so is the scratch file of a
\* download (a scratch file the system refuses to unlink stays, and the job
\* ends by that error).
C17_ScratchRemoved ==
    \A j \in Jobs :
        Ended(j) =>
            /\ ~job[j].tmpdir
            /\ job[j].tmp = {}
            /\ (job[j].entry = "url" /\ job[j].err # "PermissionError") =>
                  ~job[j].zip_file

\* C17 witness: a download that failed inside unpack_addon_sync, after its
\* scratch directory had been created, has ended without scratch left.
C17_Witness ==
    /\ Ended(1)
    /\ job[1].entry = "url"
    /\ job[1].unpacks > 0
    /\ job[1].err # "none"
    /\ ~job[1].tmpdir /\ job[1].tmp = {} /\ ~job[1].zip_file

HasProgress(r) == r.progress # -1

\* the progress values reported for job j, in order
Progress(j) == SelectSeq(events[j], HasProgress)

\* C18: the progress values reported for a job never decrease, the 50
\* reported after parsing included, whatever Content-Length was announced.
C18_ProgressNeverDecreases ==
    \A j \in Jobs :
        \A a, b \in DOMAIN Progress(j) :
            a < b => Progress(j)[a].progress <= Progress(j)[b].progress

\* C19: every progress value reported from the download loop (an update with
\* progress only) lies in 0..50, whatever Content-Length was announced.
C19_DownloadProgressInHalf ==
    \A j \in Jobs :
        \A a \in DOMAIN events[j] :
            (events[j][a].status = "" /\ HasProgress(events[j][a])) =>
                events[j][a].progress \in 0 .. 50

\* C20: in the download loop, a progress update begins more than one second
\* after the update before it ended.
C20_UpdatesMoreThanASecondApart ==
    \A j \in Jobs :
        job[j].emit_prev # 0 => job[j].emit_at - job[j].emit_prev > 1

\* C20 witness: two updates were made during one download, the second one
\* after the clock had advanced.
C20_Witness ==
    /\ job[1].emit_prev # 0
    /\ job[1].pc = "stream"
    /\ Len(Progress(1)) = 2

\* an update made from the download loop: progress only
LoopUpdate(r) == r.status = "" /\ HasProgress(r)

\* C21: while a body whose Content-Length is missing or 0 is streamed, no
\* update has been made from the download loop: the only report so far is
\* the first one, which carries a status and a description and no progress.
C21_NoLengthNoProgress ==
    \A j \in Jobs :
        (job[j].pc = "stream" /\ job[j].file_size = 0) =>
            /\ SelectSeq(events[j], LoopUpdate) = <<>>
            /\ Progress(j) = <<>>

\* C21 witness: without Content-Length, every chunk has been received and the
\* clock has advanced, and no progress was reported.
C21_Witness ==
    /\ job[1].pc = "stream"
    /\ job[1].file_size = 0
    /\ job[1].chunks = MaxChunks
    /\ now > 3
    /\ Progress(1) = <<>>

\* C22: a job whose unpack_addon_sync returned without error, and which then
\* fails to delete its archive (unpack_addon) or its scratch file
\* (install_addon_from_url), ends without an exception, reports finished
\* last and never reports failed.
C22_FailedDeleteKeepsOutcome ==
    \A j \in Jobs :
        (Ended(j) /\ job[j].unpacks > 0 /\ job[j].zip_file
         /\ job[j].err \in {"none", "PermissionError"}) =>
            /\ ~job[j].escaped
            /\ LastStatus(j) = "finished"
            /\ \A a \in DOMAIN events[j] : events[j][a].status # "failed"

\* C23: a job does not end with the install root absent: either entry
\* creates the root before it needs it, so that no job fails for want of it.
C23_RootCreatedWhenAbsent ==
    \A j \in Jobs : Ended(j) => rootExists

\* C24: while unpack_addon_sync of one job is pending or running in its
\* worker thread, wherever it stands, the coroutine of the other job can take
\* its next step on the event loop: receive a chunk, parse and report
\* progress 50 and hand over its own unpack, or begin a local install.
C24_UnpackLeavesLoopFree ==
    \A j, k \in Jobs :
        (j # k /\ Unpacking(j)) =>
            /\ (job[k].pc = "stream" /\ job[k].chunks < MaxChunks) =>
                  ENABLED UrlChunk(k, {0})
            /\ job[k].pc = "parse" => ENABLED UrlGetZipInfo(k)
            /\ (job[k].pc = "idle" /\ InOrder(k)) =>
                  ENABLED LocalBegin(k, RacingArchives)

\* C24 witness: job 1 is relocating in its worker thread while job 2 has
\* received a chunk and more are to come.
C24_Witness ==
    /\ job[1].entry = "url"
    /\ job[1].pc = "move"
    /\ job[2].pc = "stream"
    /\ job[2].chunks = 1

\* C25: every finished report of a job names the addon and the version read
\* from the manifest of the job's archive.
C25_FinishedNamesAddon ==
    \A j \in Jobs :
        \A a \in DOMAIN events[j] :
            events[j][a].status = "finished" =>
                /\ ReadZipInfo(job[j].zip).exc = "none"
                /\ events[j][a].description =
                      <<"Installed", ReadZipInfo(job[j].zip).info.name,
                        ReadZipInfo(job[j].zip).info.version>>

\* C25 witness: a download and a local install have both reported finished.
C25_Witness ==
    /\ job[1].entry = "url" /\ LastStatus(1) = "finished"
    /\ job[2].entry = "local" /\ LastStatus(2) = "finished"
    /\ job[2].zip = "other"

\* C26: the existing root/name/version is about to be removed only when
\* every member of the archive is in the scratch directory, and when the
\* extraction has failed the directory is as it was before the job.
C26_RemovalAfterExtraction ==
    \A j \in Jobs :
        /\ job[j].pc = "rmtree" =>
              /\ job[j].todo = <<>>
              /\ {f.path : f \in job[j].tmp} = {e.path : e \in EntrySet(job[j].zip)}
        /\ (JustEnded(j) /\ job[j].unpacks > 0 /\ job[j].err = "BadZipFile") =>
              SameDir(installed, before[j], target_dir(j))

\* C26 witness: a job whose extraction failed on a corrupt member has ended
\* and the version installed before it is still in place.
C26_Witness ==
    /\ JustEnded(1)
    /\ job[1].unpacks > 0
    /\ job[1].err = "BadZipFile"
    /\ Has(before[1], target_dir(1))
    /\ installed[target_dir(1)] = OldFiles

Paths(files) == {f.path : f \in files}

\* the paths below addon/ of the members of archive a, seen from addon/
AddonPaths(a) ==
    {Tail(e.path) : e \in {m \in EntrySet(a) : Len(m.path) > 1 /\ m.path[1] = "addon"}}

\* unpack_addon_sync of job j returned and no job has begun since j ended
Relocated(j) ==
    /\ JustEnded(j)
    /\ job[j].unpacks > 0
    /\ job[j].err \in {"none", "PermissionError"}

\* C27: after a relocation, a standard archive has left in root/name/version
\* the files of its addon/ directory at their paths below addon/ and nothing
\* else (no manifest, no file of another origin); a flat archive has left
\* every member at its own path; the scratch directory is gone.
C27_RelocationFollowsKind ==
    \A j \in Jobs :
        Relocated(j) =>
            /\ Has(installed, target_dir(j))
            /\ \A f \in installed[target_dir(j)] : f.from = job[j].zip
            /\ Paths(installed[target_dir(j)]) =
                  IF job[j].zip_info.is_rez
                  THEN Paths(EntrySet(job[j].zip))
                  ELSE AddonPaths(job[j].zip)
            /\ ~job[j].zip_info.is_rez =>
                  <<"manifest.json">> \notin Paths(installed[target_dir(j)])
            /\ ~job[j].tmpdir /\ job[j].tmp = {}

\* C27 witness: a standard archive with a subdirectory below addon/ has been
\* relocated, and after it a flat one with a subdirectory.
C27_Witness ==
    /\ Relocated(2)
    /\ job[1].zip = "std" /\ job[1].err = "none"
    /\ job[2].zip = "flat2"
    /\ <<"lib", "d.py">> \in Paths(installed[target_dir(2)])

\* the path in the archive of job j of the member installed as file f
MemberPath(j, f) == IF job[j].zip_info.is_rez THEN f.path ELSE <<"addon">> \o f.path

\* the permission bits the archive records for that member ("" for none)
RecordedMode(j, f) ==
    (CHOOSE e \in EntrySet(job[j].zip) : e.path = MemberPath(j, f)).mode

\* C28 as claimed: every installed file carries the permission bits its
\* member has in the archive, never the platform default.
C28_ModesAsRecorded ==
    \A j \in Jobs :
        Relocated(j) =>
            \A f \in installed[target_dir(j)] : f.mode = RecordedMode(j, f)

\* C28: every installed file whose member records permission bits carries
\* them, for both packaging kinds; a file whose member records none
\* (external_attr >> 16 is 0) is left with the platform default.
C28_ModesAsRecordedOrDefault ==
    \A j \in Jobs :
        Relocated(j) =>
            \A f \in installed[target_dir(j)] :
                f.mode = IF RecordedMode(j, f) # "" THEN RecordedMode(j, f)
                         ELSE "umask"

\* C28 witness: a relocated archive with a member recorded as 755 and one
\* without recorded bits.
C28_Witness ==
    /\ Relocated(1)
    /\ \E f \in installed[target_dir(1)] : f.mode = "755"
    /\ \E f \in installed[target_dir(1)] : RecordedMode(1, f) = ""

\* C29: a job that has reported finished is one whose unpack_addon_sync was
\* called and raised nothing.
C29_FinishedOnlyAfterUnpack ==
    \A j \in Jobs :
        (\E a \in DOMAIN events[j] : events[j][a].status = "finished") =>
            /\ job[j].unpacks > 0
            /\ job[j].err = "none"

\* C30: a local install that has ended, whether its unpack returned or
\* raised, has removed the archive it was given, unless os.remove itself
\* failed and the failure was logged.
C30_LocalArchiveRemoved ==
    \A j \in Jobs :
        (Ended(j) /\ job[j].entry = "local") =>
            /\ job[j].unpacks > 0
            /\ job[j].zip_file <=> job[j].logged

\* C30 witness: a local install whose unpack raised has ended and its archive
\* is gone.
C30_Witness ==
    /\ Ended(1)
    /\ job[1].entry = "local"
    /\ job[1].err # "none"
    /\ ~job[1].zip_file

====
